---- MODULE Spec2Model ----
(***************************************************************************)
(* A model of music_sync/__main__.py: the YoutubePlaylist generator, the   *)
(* PlaylistItem / Playlist models and the entrypoint that lists a          *)
(* playlist, publishes its snapshot and transfers every track.             *)
(*                                                                         *)
(* Identifiers (video ids, titles, page tokens) are positive integers;     *)
(* None is 0, which is falsy like Python's None.                           *)
(***************************************************************************)
EXTENDS Integers, Sequences, FiniteSets, TLC

\* ------------------------------------------------------------- bounds
MaxItems == 3
MaxReaderItems == 51

\* ---------------------------------------------------- program constants
maxResults == 25
THROTTLE == 30
YOUTUBE_PLAYLIST_ID == 6

None == 0

\* ---------------------------------------------------------- input sets
\* items of a provider page; a missing videoId / title reads as None.
\* Two items share a title, two share a video id, two lack a field.
RawItems ==
    {[videoId |-> 1, title |-> 1], [videoId |-> 2, title |-> 1],
     [videoId |-> 2, title |-> 2],
     [videoId |-> None, title |-> 1], [videoId |-> 2, title |-> None]}
\* how many items the provider puts on a page when asked for maxResults
Caps == {1, 2, maxResults}
\* elapsed upload times, in seconds
ElapsedTimes == {29, 30, 31}
Dates == {[year |-> 2024, month |-> 3, day |-> 1]}

Min(a, b) == IF a <= b THEN a ELSE b

SeqsUpTo(S, n) == UNION {[1..k -> S] : k \in 0..n}

SmallPlaylists == SeqsUpTo(RawItems, MaxItems)

LongPlaylists ==
    {[k \in 1..n |-> [videoId |-> k, title |-> k]] : n \in (MaxItems + 1)..MaxReaderItems}

VARIABLES
    content,        \* the provider's playlist: a sequence of raw items
    cap,            \* the provider's page capacity
    today,          \* date.today()
    pc,             \* where the run is
    error,          \* the uncaught exception that ended the run, or "none"
    has_next,       \* YoutubePlaylist.has_next
    page_token,     \* YoutubePlaylist.page_token
    page,           \* YoutubePlaylist's current response (its local `playlist`)
    pos,            \* index of the next item of the page to yield
    requests,       \* pageToken of every list request sent
    responses,      \* nextPageToken of every response received
    yielded,        \* every (video, title) pair the generator yielded
    items,          \* playlist.items of entrypoint
    idx,            \* index in playlist.items of the loop's current item
    buffer,         \* the BytesIO of the current item
    delay,          \* elapsed time of the current item's upload
    metadata,       \* metadata documents created on the drive
    fetches,        \* every media fetch started: [idx, video, ok]
    uploads,        \* every audio create call: [idx, name, body, ok]
    objects,        \* audio objects the drive acknowledged
    sleeps,         \* every sleep requested: [idx, elapsed, secs]
    slept,          \* total seconds spent in sleep
    warnings,       \* every warning printed: [idx, title, err]
    calls           \* external calls in order: [op, idx]

input == <<content, cap, today>>
reader == <<has_next, page_token, page, pos, requests, responses, yielded>>
transfer == <<idx, buffer, delay, fetches, uploads, objects, sleeps, slept, warnings>>
vars == <<input, reader, transfer, pc, error, items, metadata, calls>>

\* ------------------------------------------------------------ helpers
Truthy(x) == x # None

NoPage == [items |-> <<>>, nextPageToken |-> None]

\* youtube.playlistItems().list(maxResults, pageToken).execute(): the
\* provider serves the playlist in pages chained by offset tokens.
PlaylistItemsList(max, token) ==
    LET start == IF Truthy(token) THEN token ELSE 1
        size == Min(cap, max)
        last == Min(start + size - 1, Len(content))
    IN  [items |-> SubSeq(content, start, last),
         nextPageToken |-> IF last < Len(content) THEN last + 1 ELSE None]

\* playlist.get("items", [])
PageItems(p) == p.items

\* PlaylistItem(video=..., title=...): both fields are required strings
PlaylistItemValid(video, title) == video # None /\ title # None

PlaylistItem(video, title) == [video |-> video, title |-> title]

\* ------------------------------------------------------------ listing
InitTransfer ==
    /\ idx = 0
    /\ buffer = <<>>
    /\ delay = 0
    /\ fetches = <<>>
    /\ uploads = <<>>
    /\ objects = <<>>
    /\ sleeps = <<>>
    /\ slept = 0
    /\ warnings = <<>>

InitRun ==
    /\ today \in Dates
    /\ pc = "request"
    /\ error = "none"
    /\ has_next = TRUE
    /\ page_token = None
    /\ page = NoPage
    /\ pos = 1
    /\ requests = <<>>
    /\ responses = <<>>
    /\ yielded = <<>>
    /\ items = <<>>
    /\ metadata = <<>>
    /\ calls = <<>>
    /\ InitTransfer

Init ==
    /\ content \in SmallPlaylists
    /\ cap \in Caps
    /\ InitRun

\* the list request of one loop turn succeeds
ListPage ==
    /\ pc = "request"
    /\ has_next
    /\ LET p == PlaylistItemsList(maxResults, page_token)
       IN  /\ page' = p
           /\ responses' = Append(responses, p.nextPageToken)
    /\ requests' = Append(requests, page_token)
    /\ calls' = Append(calls, [op |-> "list", idx |-> 0])
    /\ pos' = 1
    /\ pc' = "page"
    /\ UNCHANGED <<input, transfer, error, has_next, page_token, yielded, items, metadata>>

\* mutant of ListRaise: the error is swallowed and the listing just ends
ListRaiseSwallowed ==
    /\ pc = "request"
    /\ has_next
    /\ requests' = Append(requests, page_token)
    /\ calls' = Append(calls, [op |-> "list", idx |-> 0])
    /\ error' = "listing"
    /\ has_next' = FALSE
    /\ pc' = "publish"
    /\ UNCHANGED <<input, transfer, page_token, page, pos, responses, yielded,
                   items, metadata>>

\* the list request raises: nothing catches it
ListRaise ==
    /\ pc = "request"
    /\ has_next
    /\ requests' = Append(requests, page_token)
    /\ calls' = Append(calls, [op |-> "list", idx |-> 0])
    /\ error' = "listing"
    /\ pc' = "failed"
    /\ UNCHANGED <<input, transfer, has_next, page_token, page, pos, responses, yielded,
                   items, metadata>>

\* the generator yields one pair and entrypoint appends its PlaylistItem
Yield ==
    /\ pc = "page"
    /\ pos <= Len(PageItems(page))
    /\ LET item == PageItems(page)[pos]
           video == item.videoId
           title == item.title
       IN  /\ yielded' = Append(yielded, <<video, title>>)
           /\ IF PlaylistItemValid(video, title)
              THEN /\ items' = Append(items, PlaylistItem(video, title))
                   /\ pos' = pos + 1
                   /\ UNCHANGED <<pc, error>>
              ELSE /\ error' = "validation"
                   /\ pc' = "failed"
                   /\ UNCHANGED <<items, pos>>
    /\ UNCHANGED <<input, transfer, has_next, page_token, page, requests, responses,
                   metadata, calls>>

\* mutant of PageEnd: the loop stops after the first page
PageEndStopsEarly ==
    /\ pc = "page"
    /\ pos > Len(PageItems(page))
    /\ page_token' = page.nextPageToken
    /\ has_next' = FALSE
    /\ pc' = "publish"
    /\ UNCHANGED <<input, transfer, error, page, pos, requests, responses, yielded,
                   items, metadata, calls>>

\* the page is exhausted: follow its continuation token, or stop
PageEnd ==
    /\ pc = "page"
    /\ pos > Len(PageItems(page))
    /\ page_token' = page.nextPageToken
    /\ has_next' = Truthy(page.nextPageToken)
    /\ pc' = IF Truthy(page.nextPageToken) THEN "request" ELSE "publish"
    /\ UNCHANGED <<input, transfer, error, page, pos, requests, responses, yielded,
                   items, metadata, calls>>

NextReader == ListPage \/ ListRaise \/ Yield \/ PageEnd

InitReader ==
    /\ \/ content \in SmallPlaylists /\ cap \in Caps
       \/ content \in LongPlaylists /\ cap = maxResults
    /\ InitRun

SpecReader == InitReader /\ [][NextReader]_vars

\* ------------------------------------------------------------ publish
\* f"youtube-{YOUTUBE_PLAYLIST_ID}-{today:%Y}{today:%m}{today:%d}.json"
MetadataName(id, d) == <<"youtube", id, d.year * 10000 + d.month * 100 + d.day, "json">>

\* playlist.json()
PlaylistJson(its) == [items |-> its, name |-> None]

\* f"{item.title}.mp3"
Mp3Name(title) == <<title, "mp3">>

\* the bytes stream_to_buffer writes for a video
Audio(video) == <<"audio", video>>

\* mutant of LoopNext: an item equal to an earlier one is skipped
LoopNextDedup ==
    LET fresh == {k \in (idx + 1)..Len(items) : \A j \in 1..(k - 1) : items[j] # items[k]}
    IN  IF fresh # {}
        THEN idx' = (CHOOSE k \in fresh : \A j \in fresh : k <= j) /\ pc' = "fetch"
        ELSE idx' = idx /\ pc' = "done"

\* the for loop over playlist.items takes its next item, or ends
LoopNext ==
    IF idx < Len(items)
    THEN idx' = idx + 1 /\ pc' = "fetch"
    ELSE idx' = idx /\ pc' = "done"

\* mutant of PublishOk: an empty snapshot is not published
PublishSkipsEmpty ==
    /\ pc = "publish"
    /\ IF items = <<>>
       THEN UNCHANGED <<metadata, calls>>
       ELSE /\ metadata' = Append(metadata,
                                  [name |-> MetadataName(YOUTUBE_PLAYLIST_ID, today),
                                   body |-> PlaylistJson(items),
                                   mimetype |-> "application/json"])
            /\ calls' = Append(calls, [op |-> "metadata", idx |-> 0])
    /\ LoopNext
    /\ UNCHANGED <<input, reader, error, items, buffer, delay, fetches, uploads, objects,
                   sleeps, slept, warnings>>

\* the drive acknowledges the metadata document
PublishOk ==
    /\ pc = "publish"
    /\ metadata' = Append(metadata,
                          [name |-> MetadataName(YOUTUBE_PLAYLIST_ID, today),
                           body |-> PlaylistJson(items),
                           mimetype |-> "application/json"])
    /\ calls' = Append(calls, [op |-> "metadata", idx |-> 0])
    /\ LoopNext
    /\ UNCHANGED <<input, reader, error, items, buffer, delay, fetches, uploads, objects,
                   sleeps, slept, warnings>>

\* mutant of PublishRaise: the error is swallowed and the transfer starts
PublishRaiseSwallowed ==
    /\ pc = "publish"
    /\ calls' = Append(calls, [op |-> "metadata", idx |-> 0])
    /\ error' = "publish"
    /\ LoopNext
    /\ UNCHANGED <<input, reader, items, metadata, buffer, delay, fetches, uploads,
                   objects, sleeps, slept, warnings>>

\* the metadata create call raises: nothing catches it
PublishRaise ==
    /\ pc = "publish"
    /\ calls' = Append(calls, [op |-> "metadata", idx |-> 0])
    /\ error' = "publish"
    /\ pc' = "failed"
    /\ UNCHANGED <<input, reader, transfer, items, metadata>>

\* ----------------------------------------------------------- transfer
\* except Exception as e: console.print(":warning: ... {item.title}: {e}")
Warn(err) ==
    warnings' = Append(warnings, [idx |-> idx, title |-> items[idx].title, err |-> err])

\* time.sleep(secs) raises ValueError for a negative argument
SleepRaises(secs) == secs < 0

\* min(30 - delay, 0)
ThrottleSecs(elapsed) == Min(THROTTLE - elapsed, 0)

FetchOk ==
    /\ pc = "fetch"
    /\ buffer' = Audio(items[idx].video)
    /\ fetches' = Append(fetches, [idx |-> idx, video |-> items[idx].video, ok |-> TRUE])
    /\ calls' = Append(calls, [op |-> "fetch", idx |-> idx])
    /\ pc' = "upload"
    /\ UNCHANGED <<input, reader, error, items, metadata, idx, delay, uploads, objects,
                   sleeps, slept, warnings>>

FetchRaise ==
    /\ pc = "fetch"
    /\ buffer' = <<>>
    /\ fetches' = Append(fetches, [idx |-> idx, video |-> items[idx].video, ok |-> FALSE])
    /\ calls' = Append(calls, [op |-> "fetch", idx |-> idx])
    /\ Warn("fetch")
    /\ LoopNext
    /\ UNCHANGED <<input, reader, error, items, metadata, delay, uploads, objects,
                   sleeps, slept>>

UploadCall(ok) ==
    [idx |-> idx, name |-> Mp3Name(items[idx].title), body |-> buffer,
     mimetype |-> "audio/mpeg3", ok |-> ok]

UploadOk ==
    /\ pc = "upload"
    /\ \E elapsed \in ElapsedTimes : delay' = elapsed
    /\ uploads' = Append(uploads, UploadCall(TRUE))
    /\ objects' = Append(objects, [name |-> Mp3Name(items[idx].title), body |-> buffer])
    /\ calls' = Append(calls, [op |-> "upload", idx |-> idx])
    /\ pc' = "throttle"
    /\ UNCHANGED <<input, reader, error, items, metadata, idx, buffer, fetches, sleeps,
                   slept, warnings>>

\* mutant of UploadRaise: the error escapes the per-item handler
UploadRaiseAborts ==
    /\ pc = "upload"
    /\ uploads' = Append(uploads, UploadCall(FALSE))
    /\ calls' = Append(calls, [op |-> "upload", idx |-> idx])
    /\ error' = "upload"
    /\ pc' = "failed"
    /\ UNCHANGED <<input, reader, items, metadata, idx, buffer, delay, fetches, objects,
                   sleeps, slept, warnings>>

UploadRaise ==
    /\ pc = "upload"
    /\ uploads' = Append(uploads, UploadCall(FALSE))
    /\ calls' = Append(calls, [op |-> "upload", idx |-> idx])
    /\ Warn("upload")
    /\ LoopNext
    /\ UNCHANGED <<input, reader, error, items, metadata, buffer, delay, fetches, objects,
                   sleeps, slept>>

\* delay = perf_counter() - start; sleep(min(30 - delay, 0))
Throttle ==
    /\ pc = "throttle"
    /\ LET secs == ThrottleSecs(delay)
       IN  /\ sleeps' = Append(sleeps, [idx |-> idx, elapsed |-> delay, secs |-> secs])
           /\ calls' = Append(calls, [op |-> "sleep", idx |-> idx])
           /\ IF SleepRaises(secs)
              THEN Warn("sleep") /\ slept' = slept
              ELSE slept' = slept + secs /\ warnings' = warnings
    /\ LoopNext
    /\ UNCHANGED <<input, reader, error, items, metadata, buffer, delay, fetches, uploads,
                   objects>>

Next ==
    \/ ListPage
    \/ ListRaise
    \/ Yield
    \/ PageEnd
    \/ PublishOk
    \/ PublishRaise
    \/ FetchOk
    \/ FetchRaise
    \/ UploadOk
    \/ UploadRaise
    \/ Throttle

Spec == Init /\ [][Next]_vars

\* the program is one sequential thread: it always takes its next step
FairSpec == Spec /\ WF_vars(Next)

\* ============================================================= claims
IsPrefix(s, t) == Len(s) <= Len(t) /\ \A k \in 1..Len(s) : s[k] = t[k]

\* the pairs of the provider's playlist, in provider order
ExpectedPairs == [k \in 1..Len(content) |-> <<content[k].videoId, content[k].title>>]

\* the generator is exhausted
Exhausted == ~has_next

\* C3: the reader yields the provider's pairs in provider order and, once
\* exhausted, exactly all N of them; the first request carries no page
\* token and every later one the token of the previous response; no request
\* follows a response without token; with full pages of 25 the listing
\* takes ceil(N/25) requests (one for an empty playlist).
C3_ReaderYieldsAll ==
    /\ IsPrefix(yielded, ExpectedPairs)
    /\ Len(requests) >= 1 => requests[1] = None
    /\ \A k \in 2..Len(requests) : Truthy(responses[k - 1]) /\ requests[k] = responses[k - 1]
    /\ Len(yielded) <= Len(requests) * maxResults
    /\ Exhausted =>
          /\ yielded = ExpectedPairs
          /\ Len(requests) = Len(responses)
          /\ responses[Len(responses)] = None
          /\ pc # "request"
          /\ cap = maxResults =>
                Len(requests) = IF Len(content) = 0 THEN 1
                                ELSE (Len(content) + maxResults - 1) \div maxResults

C3_Witness ==
    Exhausted /\ Len(requests) >= 3 /\ Len(yielded) > 2 * maxResults

\* C10: once a list request has raised, on the first page or a later one,
\* the run has failed for good: no metadata document and no audio object
\* exists, nothing was fetched or uploaded, the failed request is the last
\* request sent (no retry) and no step follows.
C10_ListingFailureAborts ==
    error = "listing" =>
        /\ pc = "failed"
        /\ metadata = <<>> /\ objects = <<>> /\ uploads = <<>> /\ fetches = <<>>
        /\ Len(requests) = Len(responses) + 1
        /\ \A k \in 1..Len(calls) : calls[k].op = "list"
        /\ ~ENABLED Next

C10_Witness ==
    error = "listing" /\ Len(responses) >= 1 /\ Len(items) >= 1

\* C2: once the metadata create call has raised, the run has failed for
\* good and no media fetch and no audio upload was or will be performed.
C2_PublishFailureAborts ==
    error = "publish" =>
        /\ pc = "failed"
        /\ metadata = <<>>
        /\ fetches = <<>> /\ uploads = <<>> /\ objects = <<>>
        /\ \A k \in 1..Len(calls) : calls[k].op \in {"list", "metadata"}
        /\ ~ENABLED Next

C2_Witness ==
    error = "publish" /\ Len(items) >= 2

\* C5: for a playlist of 0 items nothing is ever fetched or uploaded, the
\* run can only fail in the listing or the publishing, and when it ends
\* successfully exactly one metadata document was uploaded, named after the
\* playlist and the date, with an empty items list.
C5_EmptyPlaylist ==
    content = <<>> =>
        /\ fetches = <<>> /\ uploads = <<>> /\ objects = <<>>
        /\ pc \notin {"fetch", "upload", "throttle"}
        /\ pc = "failed" => error \in {"listing", "publish"}
        /\ Len(metadata) = 1 => pc = "done"
        /\ pc = "done" =>
              /\ Len(metadata) = 1
              /\ metadata[1].body = [items |-> <<>>, name |-> None]
              /\ metadata[1].name = MetadataName(YOUTUBE_PLAYLIST_ID, today)
              /\ Cardinality({k \in 1..Len(calls) : calls[k].op = "metadata"}) = 1

C5_Witness ==
    content = <<>> /\ pc = "done" /\ Len(metadata) = 1

\* indices of the items whose fetch has succeeded, in fetch order
FetchedIdx ==
    LET ok == SelectSeq(fetches, LAMBDA f : f.ok)
    IN  [k \in 1..Len(ok) |-> ok[k].idx]

UploadedIdx == [k \in 1..Len(uploads) |-> uploads[k].idx]

\* all but the last element
Front(s) == SubSeq(s, 1, Len(s) - 1)

\* C9: fetches visit the snapshot items in order, one fetch per occurrence;
\* the audio upload calls are exactly the successfully fetched items, in
\* that order (the item just fetched being next), each named {title}.mp3
\* and carrying the fetched bytes; every upload call directly follows the
\* fetch of the same item; the single metadata upload precedes every fetch;
\* at the end every occurrence of every item has been fetched.
C9_UploadsFollowSnapshot ==
    /\ \A k \in 1..Len(fetches) :
          fetches[k].idx = k /\ fetches[k].video = items[k].video
    /\ UploadedIdx = IF pc = "upload" THEN Front(FetchedIdx) ELSE FetchedIdx
    /\ \A k \in 1..Len(uploads) :
          /\ uploads[k].name = <<items[uploads[k].idx].title, "mp3">>
          /\ uploads[k].body = <<"audio", items[uploads[k].idx].video>>
    /\ \A p \in 1..Len(calls) :
          /\ calls[p].op = "upload" =>
                p > 1 /\ calls[p - 1] = [op |-> "fetch", idx |-> calls[p].idx]
          /\ calls[p].op = "fetch" =>
                \E q \in 1..(p - 1) : calls[q].op = "metadata"
    /\ Cardinality({p \in 1..Len(calls) : calls[p].op = "metadata"}) <= 1
    /\ pc = "done" => Len(fetches) = Len(items)

C9_Witness ==
    /\ pc = "done"
    /\ Len(items) = 3 /\ items[1] = items[3]
    /\ ~fetches[2].ok
    /\ UploadedIdx = <<1, 3>>
    /\ uploads[1].name = uploads[2].name

\* C4: once the metadata document is published the run never fails, it
\* eventually ends, and at its end every snapshot item has been attempted
\* exactly once, in order, whatever each item's outcome.
C4_TransferCompletes ==
    /\ [](Len(metadata) = 1 => pc # "failed" /\ error = "none")
    /\ [](pc = "done" => [k \in 1..Len(fetches) |-> fetches[k].idx]
                           = [k \in 1..Len(items) |-> k])
    /\ (Len(metadata) = 1) ~> (pc = "done")

C4_Witness ==
    /\ pc = "done"
    /\ Len(items) = 3
    /\ ~fetches[1].ok
    /\ \E k \in 1..Len(uploads) : uploads[k].idx = 2 /\ ~uploads[k].ok
    /\ \E k \in 1..Len(uploads) : uploads[k].idx = 3 /\ uploads[k].ok

\* indices of the snapshot items whose fetch / upload raised
FetchFailed == {fetches[k].idx : k \in {j \in 1..Len(fetches) : ~fetches[j].ok}}

UploadFailed == {uploads[k].idx : k \in {j \in 1..Len(uploads) : ~uploads[j].ok}}

Acknowledged == {uploads[k].idx : k \in {j \in 1..Len(uploads) : uploads[j].ok}}

Warned == {warnings[k].idx : k \in 1..Len(warnings)}

\* C1: at the end of a run in which the fetch of exactly one item K raised
\* and no upload raised, N-1 audio upload calls were made, none of them for
\* K, and exactly one warning was printed, naming K's title.
C1_OneFetchFailure ==
    (pc = "done" /\ Cardinality(FetchFailed) = 1 /\ UploadFailed = {}) =>
        LET K == CHOOSE k \in FetchFailed : TRUE
        IN  /\ Len(uploads) = Len(items) - 1
            /\ \A k \in 1..Len(uploads) : uploads[k].idx # K
            /\ Len(warnings) = 1
            /\ warnings[1].title = items[K].title

\* C6: the snapshot holds one PlaylistItem per yielded pair, in the same
\* order, pairs with an empty field included, and no yielded pair keeps the
\* run from publishing.
C6_SnapshotMatchesYield ==
    /\ Len(items) = Len(yielded)
    /\ \A k \in 1..Len(items) : <<items[k].video, items[k].title>> = yielded[k]
    /\ error # "validation"

\* C7: at the end of the run a warning was printed for an item if and only
\* if its fetch or its upload raised; none for an item whose upload the
\* drive acknowledged.
C7_WarningsAreSkippedTracks ==
    pc = "done" =>
        /\ Warned = FetchFailed \cup UploadFailed
        /\ Warned \cap Acknowledged = {}
        /\ Len(warnings) = Cardinality(Warned)

\* C8: every throttle step is a no-op: it asks for a sleep of 0 when the
\* upload took less than 30 seconds and for a negative one when it took
\* more, never delays the run, and leaves the item completed normally:
\* the step prints nothing and only moves the loop on.
C8_ThrottleIsNoOp ==
    /\ slept = 0
    /\ \A k \in 1..Len(sleeps) :
          /\ sleeps[k].secs <= 0
          /\ sleeps[k].elapsed < THROTTLE => sleeps[k].secs = 0
          /\ sleeps[k].elapsed > THROTTLE => sleeps[k].secs < 0
          /\ \A w \in 1..Len(warnings) : warnings[w].idx # sleeps[k].idx

====
